---- MODULE Spec2Model ----
(***************************************************************************)
(* Model of PlakshaChatbot/app.py: the /chat endpoint, the answer          *)
(* composition policy of get_answer, the retry loop of                     *)
(* call_llm_with_retry and the process-wide conversation memory.           *)
(*                                                                         *)
(* Python strings are TLA+ strings (Len, SubSeq, Head, Tail and \o apply   *)
(* to them).  TLA+ strings are ASCII, so the two emoji of the source are   *)
(* written "[!]" (warning sign) and "[*]" (small blue diamond).            *)
(* Requests are handled one at a time (spec section 5: synchronous,        *)
(* request-per-call handling).                                             *)
(***************************************************************************)
EXTENDS Integers, Sequences, FiniteSets, TLC

VARIABLES
    pc,               \* position of the handler: idle, retrieve, chain, llm, sleep, done
    req,              \* the HTTP request being handled
    query,            \* get_answer's argument
    invoked,          \* get_answer was called for this request
    retr_exc,         \* retriever.invoke raised (line 85)
    retrieved_docs,   \* page_content of the retrieved documents (line 84 / 87)
    gen,              \* outcome of qa_chain.invoke: "none", "ok", "exc"
    raw_answer,       \* response["answer"] as the chain produced it
    faiss_answer,     \* line 93
    site,             \* call site of call_llm_with_retry: "L96", "L104", "L109"
    attempt,          \* loop variable of line 68
    trace,            \* llm.predict / time.sleep calls of the current retry loop, in order
    calls,            \* outcome of each llm.predict call of the current retry loop
    llm_answer,       \* value returned by call_llm_with_retry
    fallbackCalls,    \* number of call_llm_with_retry invocations in this request
    filterConsulted,  \* is_finance_tax_related was evaluated in this request
    response,         \* the HTTP response (status, JSON body)
    memory,           \* ConversationBufferMemory: the saved (question, answer) turns
    mem0              \* memory as it was when the request arrived

vars == <<pc, req, query, invoked, retr_exc, retrieved_docs, gen, raw_answer,
          faiss_answer, site, attempt, trace, calls, llm_answer, fallbackCalls,
          filterConsulted, response, memory, mem0>>

llmv == <<site, attempt, trace, calls, llm_answer, fallbackCalls>>

-----------------------------------------------------------------------------
(* Bounds and inputs *)

MaxTurns == 2

max_retries == 3

Messages == {"", "GST?", "Syntax", "rain"}

Requests ==
    {[body |-> "null", has |-> FALSE, message |-> ""],
     [body |-> "object", has |-> FALSE, message |-> ""]}
    \cup {[body |-> "object", has |-> TRUE, message |-> m] : m \in Messages}

DocSets == {<<>>, <<"", " \n">>, <<" ", "GST Act s.9">>}

ChainAnswers == {"does not contain it", " NOT MENTIONED\n", "18% GST", " ok\n", ""}

LlmOutcomes ==
    {[ok |-> TRUE, text |-> "12%"],
     [ok |-> TRUE, text |-> "n/a"],
     [ok |-> FALSE, text |-> "Error code: 429"],
     [ok |-> FALSE, text |-> "Error code: 500"],
     [ok |-> FALSE, text |-> "Request timed out."]}

-----------------------------------------------------------------------------
(* String functions *)

LowerChar(c) ==
    CASE c = "A" -> "a" [] c = "B" -> "b" [] c = "C" -> "c" [] c = "D" -> "d"
      [] c = "E" -> "e" [] c = "F" -> "f" [] c = "G" -> "g" [] c = "H" -> "h"
      [] c = "I" -> "i" [] c = "J" -> "j" [] c = "K" -> "k" [] c = "L" -> "l"
      [] c = "M" -> "m" [] c = "N" -> "n" [] c = "O" -> "o" [] c = "P" -> "p"
      [] c = "Q" -> "q" [] c = "R" -> "r" [] c = "S" -> "s" [] c = "T" -> "t"
      [] c = "U" -> "u" [] c = "V" -> "v" [] c = "W" -> "w" [] c = "X" -> "x"
      [] c = "Y" -> "y" [] c = "Z" -> "z" [] OTHER -> c

RECURSIVE Lower(_)
Lower(s) == IF s = "" THEN "" ELSE LowerChar(Head(s)) \o Lower(Tail(s))

Whitespace == {" ", "\t", "\n", "\r", "\f"}

RECURSIVE LStrip(_)
LStrip(s) == IF s # "" /\ Head(s) \in Whitespace THEN LStrip(Tail(s)) ELSE s

RECURSIVE RStrip(_)
RStrip(s) ==
    IF s # "" /\ SubSeq(s, Len(s), Len(s)) \in Whitespace
    THEN RStrip(SubSeq(s, 1, Len(s) - 1))
    ELSE s

Strip(s) == RStrip(LStrip(s))

\* sub in s
Contains(sub, s) ==
    \E i \in 1..(Len(s) - Len(sub) + 1) : SubSeq(s, i, i + Len(sub) - 1) = sub

-----------------------------------------------------------------------------
(* is_finance_tax_related *)

keywords ==
    <<"tax", "gst", "income", "itr", "capital gain", "deduction",
      "filing", "assessment", "refund", "audit", "financial year",
      "finance", "exemption", "tds", "income tax", "taxable", "section", "investment">>

is_finance_tax_related(q) ==
    \E i \in 1..Len(keywords) : Contains(keywords[i], Lower(q))

-----------------------------------------------------------------------------
(* Fixed strings *)

no_message == "No message provided."

source_tag == "OpenAI/LangChain"

apology == "Sorry, I encountered an error processing your request."

experiencing_issues == "I am currently experiencing issues. Please try again later."

reject_disclaiming ==
    "[!] I can only answer finance or tax-related queries. Please try again with a relevant question."

reject_chain_error == "[!] I can only answer finance or tax-related queries."

reject_no_docs ==
    "[!] I can only answer finance or tax-related queries. Please ask something related to tax or finance."

none_has_no_get == "'NoneType' object has no attribute 'get'"

AnswerBody(a) == [answer |-> a, source |-> source_tag]

ErrorBody(e) == [error |-> e]

NoResponse == [status |-> 0, body |-> ErrorBody("")]

-----------------------------------------------------------------------------
(* call_llm_with_retry: entry, one llm.predict call, one time.sleep call *)

\* every error is retried
rate_limited_any(e) == TRUE

\* "429" in str(e)
rate_limited(e) == Contains("429", e)

\* 2 * attempt instead of 2 ** attempt
wait_time_linear(a) == 2 * a

\* wait_time = 2 ** attempt
wait_time(a) == 2 ^ a

\* range(max_retries + 1)
in_range_inclusive(a) == a <= max_retries

\* for attempt in range(max_retries): the loop body runs for this value
in_range(a) == a < max_retries

\* the grounded answer is dropped from the augmented answer
augmented_llm_only(faiss, llm) == "[*] Additional info from LLM:\n" \o llm

\* f"{faiss_answer}\n\n[*] Additional info from LLM:\n{llm_answer}"
augmented(faiss, llm) == faiss \o "\n\n[*] Additional info from LLM:\n" \o llm

\* a return statement of get_answer, and chat's jsonify of it
Finish(status, body) ==
    /\ pc' = "done"
    /\ response' = [status |-> status, body |-> body]
    /\ UNCHANGED llmv

\* the call at line 96, 104 or 109
call_llm_with_retry(s) ==
    /\ pc' = "llm"
    /\ site' = s
    /\ attempt' = 0
    /\ trace' = <<>>
    /\ calls' = <<>>
    /\ fallbackCalls' = fallbackCalls + 1
    /\ UNCHANGED <<response, llm_answer>>

\* call_llm_with_retry returns v to its call site, which returns to chat
LlmReturn(v) ==
    /\ pc' = "done"
    /\ llm_answer' = v
    /\ response' = [status |-> 200,
                    body |-> AnswerBody(IF site = "L96" THEN augmented(faiss_answer, v) ELSE v)]

llm_predict ==
    /\ pc = "llm"
    /\ \E o \in LlmOutcomes :
        /\ calls' = Append(calls, o)
        /\ trace' = Append(trace, [op |-> "predict", n |-> attempt])
        /\ IF o.ok
           THEN LlmReturn(o.text)
           ELSE IF rate_limited(o.text)
                THEN pc' = "sleep" /\ UNCHANGED <<response, llm_answer>>
                ELSE LlmReturn(apology)
    /\ UNCHANGED <<req, query, invoked, retr_exc, retrieved_docs, gen, raw_answer,
                   faiss_answer, site, attempt, fallbackCalls, filterConsulted,
                   memory, mem0>>

time_sleep ==
    /\ pc = "sleep"
    /\ trace' = Append(trace, [op |-> "sleep", n |-> wait_time(attempt)])
    /\ attempt' = attempt + 1
    /\ IF in_range(attempt + 1)
       THEN pc' = "llm" /\ UNCHANGED <<response, llm_answer>>
       ELSE LlmReturn(experiencing_issues)
    /\ UNCHANGED <<req, query, invoked, retr_exc, retrieved_docs, gen, raw_answer,
                   faiss_answer, site, calls, fallbackCalls, filterConsulted,
                   memory, mem0>>

-----------------------------------------------------------------------------
(* get_answer *)

\* retrieved_docs and any(doc.page_content.strip() for doc in retrieved_docs)
has_content(docs) ==
    /\ docs # <<>>
    /\ \E i \in 1..Len(docs) : Strip(docs[i]) # ""

\* "not mention" in faiss_answer.lower() or "does not contain" in faiss_answer.lower()
disclaims(a) ==
    Contains("not mention", Lower(a)) \/ Contains("does not contain", Lower(a))

\* lines 95-99
disclaiming_branch(q) ==
    /\ filterConsulted' = TRUE
    /\ IF is_finance_tax_related(q)
       THEN call_llm_with_retry("L96")
       ELSE Finish(200, AnswerBody(reject_disclaiming))

\* the chain-error path without the domain check
chain_error_branch_ungated(q) ==
    /\ filterConsulted' = TRUE
    /\ call_llm_with_retry("L104")

\* lines 103-106
chain_error_branch(q) ==
    /\ filterConsulted' = TRUE
    /\ IF is_finance_tax_related(q)
       THEN call_llm_with_retry("L104")
       ELSE Finish(200, AnswerBody(reject_chain_error))

\* the no-documents path without the domain check
no_docs_branch_ungated(q) ==
    /\ UNCHANGED filterConsulted
    /\ call_llm_with_retry("L109")

\* lines 108-111
no_docs_branch(q) ==
    /\ filterConsulted' = TRUE
    /\ IF is_finance_tax_related(q)
       THEN call_llm_with_retry("L109")
       ELSE Finish(200, AnswerBody(reject_no_docs))

\* the domain check applied to clean grounded answers too
grounded_branch_gated(a, q) ==
    IF disclaims(a) \/ ~is_finance_tax_related(q)
    THEN disclaiming_branch(q)
    ELSE Finish(200, AnswerBody(a)) /\ UNCHANGED filterConsulted

\* lines 94-100
grounded_branch(a, q) ==
    IF disclaims(a)
    THEN disclaiming_branch(q)
    ELSE Finish(200, AnswerBody(a)) /\ UNCHANGED filterConsulted

\* the chain built without memory=memory
save_context_dropped(q, a) == UNCHANGED memory

\* the chain saves the turn into the memory it was built with (memory=memory, line 90)
save_context(q, a) == memory' = Append(memory, [question |-> q, answer |-> a])

\* line 89 and the else branch of lines 107-111
after_retrieval(docs) ==
    IF has_content(docs)
    THEN pc' = "chain" /\ UNCHANGED <<response, llmv, filterConsulted>>
    ELSE no_docs_branch(query)

\* lines 82-84: retriever.invoke returns documents
RetrieverReturns ==
    /\ pc = "retrieve"
    /\ \E docs \in DocSets :
        /\ retrieved_docs' = docs
        /\ after_retrieval(docs)
    /\ UNCHANGED <<req, query, invoked, retr_exc, gen, raw_answer, faiss_answer,
                   memory, mem0>>

\* retriever.invoke outside the try: the exception reaches chat's handler
RetrieverRaisesPropagates ==
    /\ pc = "retrieve"
    /\ retr_exc' = TRUE
    /\ retrieved_docs' = <<>>
    /\ Finish(500, ErrorBody("index unavailable"))
    /\ UNCHANGED <<req, query, invoked, gen, raw_answer, faiss_answer, memory, mem0,
                   filterConsulted>>

\* lines 85-87: retriever.invoke raises
RetrieverRaises ==
    /\ pc = "retrieve"
    /\ retr_exc' = TRUE
    /\ retrieved_docs' = <<>>
    /\ after_retrieval(<<>>)
    /\ UNCHANGED <<req, query, invoked, gen, raw_answer, faiss_answer, memory, mem0>>

\* lines 90-100: qa_chain.invoke returns an answer
ChainReturns ==
    /\ pc = "chain"
    /\ \E a \in ChainAnswers :
        /\ gen' = "ok"
        /\ raw_answer' = a
        /\ save_context(query, a)
        /\ faiss_answer' = Strip(a)
        /\ grounded_branch(Strip(a), query)
    /\ UNCHANGED <<req, query, invoked, retr_exc, retrieved_docs, mem0>>

\* lines 101-106: qa_chain.invoke raises
ChainRaises ==
    /\ pc = "chain"
    /\ gen' = "exc"
    /\ chain_error_branch(query)
    /\ UNCHANGED <<req, query, invoked, retr_exc, retrieved_docs, raw_answer,
                   faiss_answer, memory, mem0>>

-----------------------------------------------------------------------------
(* chat *)

\* data.get("message"): <<>> is None, <<s>> is the string s
get_message(r) == IF r.has THEN <<r.message>> ELSE <<>>

\* user_message is None
IsNone(v) == v = <<>>

\* not user_message
Not(v) == v = <<>> \/ v[1] = ""

\* lines 119-125 and 130-132
chat ==
    /\ pc = "idle"
    /\ Len(memory) < MaxTurns
    /\ \E r \in Requests :
        /\ req' = r
        /\ mem0' = memory
        /\ IF r.body = "null"
           THEN /\ Finish(500, ErrorBody(none_has_no_get))
                /\ UNCHANGED <<query, invoked>>
           ELSE IF Not(get_message(r))
                THEN /\ Finish(400, ErrorBody(no_message))
                     /\ UNCHANGED <<query, invoked>>
                ELSE /\ query' = get_message(r)[1]
                     /\ invoked' = TRUE
                     /\ pc' = "retrieve"
                     /\ UNCHANGED <<response, llmv>>
    /\ UNCHANGED <<retr_exc, retrieved_docs, gen, raw_answer, faiss_answer,
                   filterConsulted, memory>>

\* the response is sent; the handler's locals go away, the memory stays
Deliver ==
    /\ pc = "done"
    /\ pc' = "idle"
    /\ req' = [body |-> "null", has |-> FALSE, message |-> ""]
    /\ query' = ""
    /\ invoked' = FALSE
    /\ retr_exc' = FALSE
    /\ retrieved_docs' = <<>>
    /\ gen' = "none"
    /\ raw_answer' = ""
    /\ faiss_answer' = ""
    /\ site' = ""
    /\ attempt' = 0
    /\ trace' = <<>>
    /\ calls' = <<>>
    /\ llm_answer' = ""
    /\ fallbackCalls' = 0
    /\ filterConsulted' = FALSE
    /\ response' = NoResponse
    /\ mem0' = memory
    /\ UNCHANGED memory

Init ==
    /\ pc = "idle"
    /\ req = [body |-> "null", has |-> FALSE, message |-> ""]
    /\ query = ""
    /\ invoked = FALSE
    /\ retr_exc = FALSE
    /\ retrieved_docs = <<>>
    /\ gen = "none"
    /\ raw_answer = ""
    /\ faiss_answer = ""
    /\ site = ""
    /\ attempt = 0
    /\ trace = <<>>
    /\ calls = <<>>
    /\ llm_answer = ""
    /\ fallbackCalls = 0
    /\ filterConsulted = FALSE
    /\ response = NoResponse
    /\ memory = <<>>
    /\ mem0 = <<>>

Next ==
    \/ chat
    \/ RetrieverReturns
    \/ RetrieverRaises
    \/ ChainReturns
    \/ ChainRaises
    \/ llm_predict
    \/ time_sleep
    \/ Deliver

Spec == Init /\ [][Next]_vars

-----------------------------------------------------------------------------
(* Properties *)

Done == pc = "done"

\* call_llm_with_retry was called in this request and has returned
FallbackReturned == pc = "done" /\ fallbackCalls = 1

\* the first k llm.predict calls failed with an error whose text contains "429"
First429(k) ==
    \A i \in 1..k : ~calls[i].ok /\ Contains("429", calls[i].text)

\* k rate-limited attempts and a final one: predict, sleep 1, predict, sleep 2, ...
ExpectedTrace(k) ==
    [i \in 1..(2 * k + 1) |->
        IF i % 2 = 1
        THEN [op |-> "predict", n |-> (i - 1) \div 2]
        ELSE [op |-> "sleep", n |-> 2 ^ ((i \div 2) - 1)]]

RECURSIVE TotalSleep(_)
TotalSleep(t) ==
    IF t = <<>> THEN 0
    ELSE (IF Head(t).op = "sleep" THEN Head(t).n ELSE 0) + TotalSleep(Tail(t))

Predicts(t) == Cardinality({i \in 1..Len(t) : t[i].op = "predict"})

Sleeps(t) == Cardinality({i \in 1..Len(t) : t[i].op = "sleep"})

\* what the retry loop must return for the llm.predict outcomes it saw
FallbackResult(c) ==
    IF c[Len(c)].ok THEN c[Len(c)].text
    ELSE IF Contains("429", c[Len(c)].text)
         THEN "I am currently experiencing issues. Please try again later."
         ELSE "Sorry, I encountered an error processing your request."

\* get_answer ended on a path where retrieval-augmented answering failed
GroundingFailed ==
    invoked /\ (retr_exc \/ ~has_content(retrieved_docs) \/ gen = "exc")

\* get_answer ended after a grounded answer that disclaims
GroundedDisclaiming == gen = "ok" /\ disclaims(raw_answer)

\* get_answer ended after a grounded answer that does not disclaim
GroundedClean == gen = "ok" /\ ~disclaims(raw_answer)

\* C1: within one request call_llm_with_retry is entered (and llm.predict or
\* time.sleep run) only for a query that is_finance_tax_related accepts, on
\* every path of get_answer; for a rejected query it is never entered.
C1_DomainGating ==
    /\ fallbackCalls > 0 => invoked /\ is_finance_tax_related(query)
    /\ pc \in {"llm", "sleep"} \/ trace # <<>> \/ calls # <<>> => fallbackCalls > 0
    /\ Done /\ invoked /\ ~is_finance_tax_related(query) => fallbackCalls = 0

C1_Witness ==
    /\ Done /\ retr_exc /\ fallbackCalls = 1 /\ site = "L109"
    /\ query = "Syntax"

\* C2 as stated: after a disclaiming grounded answer to an accepted query, the
\* fallback is called once and the answer is the grounded answer, as the chain
\* produced it, followed by the labelled section with the fallback's result.
C2_AugmentedRawAnswer ==
    Done /\ GroundedDisclaiming /\ is_finance_tax_related(query) =>
        /\ fallbackCalls = 1
        /\ response = [status |-> 200,
                       body |-> [answer |-> raw_answer
                                            \o "\n\n[*] Additional info from LLM:\n"
                                            \o llm_answer,
                                 source |-> "OpenAI/LangChain"]]

\* C2 amended: the answer is the grounded answer stripped of leading and
\* trailing whitespace, followed by the labelled section with the fallback's
\* result; the fallback is called exactly once.
C2_AugmentedStrippedAnswer ==
    Done /\ GroundedDisclaiming /\ is_finance_tax_related(query) =>
        /\ fallbackCalls = 1
        /\ site = "L96"
        /\ Predicts(trace) = Len(calls)
        /\ llm_answer = FallbackResult(calls)
        /\ response = [status |-> 200,
                       body |-> [answer |-> Strip(raw_answer)
                                            \o "\n\n[*] Additional info from LLM:\n"
                                            \o llm_answer,
                                 source |-> "OpenAI/LangChain"]]

C2_Witness ==
    /\ Done /\ raw_answer = " NOT MENTIONED\n" /\ query = "GST?"
    /\ fallbackCalls = 1 /\ llm_answer = "12%"

\* C3 as stated: a grounded answer without a disclaiming phrase is returned
\* unchanged, the filter is not consulted and the fallback is not called.
C3_CleanAnswerUnchanged ==
    Done /\ GroundedClean =>
        /\ response = [status |-> 200,
                       body |-> [answer |-> raw_answer, source |-> "OpenAI/LangChain"]]
        /\ ~filterConsulted
        /\ fallbackCalls = 0

\* C3 amended: a grounded answer without a disclaiming phrase is returned
\* stripped of leading and trailing whitespace and otherwise unchanged, for
\* accepted and rejected queries alike; the filter is not consulted and the
\* fallback is not called.
C3_CleanAnswerStripped ==
    Done /\ GroundedClean =>
        /\ response = [status |-> 200,
                       body |-> [answer |-> Strip(raw_answer),
                                 source |-> "OpenAI/LangChain"]]
        /\ ~filterConsulted
        /\ fallbackCalls = 0
        /\ trace = <<>>

C3_Witness ==
    /\ Done /\ raw_answer = "18% GST" /\ query = "rain"
    /\ response.status = 200 /\ response.body.answer = "18% GST"

\* C4: when grounding fails (retriever raised, no chunk with text, or the chain
\* raised) and the query is accepted, the answer is exactly what
\* call_llm_with_retry returned; a retriever exception is treated as an empty
\* retrieval and does not reach chat's handler.
C4_FallbackDirect ==
    /\ Done /\ GroundingFailed /\ is_finance_tax_related(query) =>
        /\ fallbackCalls = 1
        /\ site = (IF gen = "exc" THEN "L104" ELSE "L109")
        /\ llm_answer = FallbackResult(calls)
        /\ response = [status |-> 200,
                       body |-> [answer |-> llm_answer, source |-> "OpenAI/LangChain"]]
    /\ retr_exc => retrieved_docs = <<>> /\ gen = "none" /\ response.status # 500

C4_Witness ==
    /\ Done /\ retr_exc /\ query = "GST?"
    /\ calls = <<[ok |-> TRUE, text |-> "n/a"]>>
    /\ response.body.answer = "n/a"

\* a rejected query on a path that does not return a clean grounded answer
RejectionPath == Done /\ invoked /\ ~is_finance_tax_related(query) /\ ~GroundedClean

\* C5 as stated: every rejection path returns one and the same string (the
\* one of the disclaiming path).
C5_OneRejectionString ==
    RejectionPath =>
        response.body.answer =
            "[!] I can only answer finance or tax-related queries. Please try again with a relevant question."

\* C5 amended: each rejection path returns its own fixed string; the three
\* strings share the sentence "I can only answer finance or tax-related
\* queries." and differ in what follows it; the fallback is not called.
C5_RejectionPerPath ==
    RejectionPath =>
        /\ response.status = 200
        /\ fallbackCalls = 0
        /\ SubSeq(response.body.answer, 1, 53) =
               "[!] I can only answer finance or tax-related queries."
        /\ GroundedDisclaiming =>
               response.body.answer =
                   "[!] I can only answer finance or tax-related queries. Please try again with a relevant question."
        /\ gen = "exc" =>
               response.body.answer = "[!] I can only answer finance or tax-related queries."
        /\ gen = "none" =>
               response.body.answer =
                   "[!] I can only answer finance or tax-related queries. Please ask something related to tax or finance."

C5_Witness ==
    /\ Done /\ gen = "exc" /\ query = "rain"
    /\ response.body.answer = "[!] I can only answer finance or tax-related queries."

\* C6: if the first k llm.predict calls (k = 0, 1, 2) fail with "429" and call
\* k+1 succeeds, call_llm_with_retry returns that value after k+1 calls and k
\* sleeps of 1, 2, ... seconds, each sleep between a failed call and the next.
C6_RetryThenSuccess ==
    \A k \in 0..2 :
        FallbackReturned /\ Len(calls) = k + 1 /\ First429(k) /\ calls[k + 1].ok =>
            /\ llm_answer = calls[k + 1].text
            /\ trace = ExpectedTrace(k)

C6_Witness ==
    /\ FallbackReturned /\ Len(calls) = 3 /\ First429(2) /\ calls[3].ok
    /\ llm_answer = "12%"
    /\ trace = <<[op |-> "predict", n |-> 0], [op |-> "sleep", n |-> 1],
                 [op |-> "predict", n |-> 1], [op |-> "sleep", n |-> 2],
                 [op |-> "predict", n |-> 2]>>

\* C7: if every llm.predict call fails with "429", call_llm_with_retry makes
\* exactly 3 calls, returns the "currently experiencing issues" string as a
\* normal answer, and sleeps at most 7 seconds in total; no run makes a fourth
\* call, and while the loop runs its variable stays below 3 and its next step
\* is always possible, so the loop ends.
C7_ExhaustedAttempts ==
    /\ Len(calls) <= 3
    /\ TotalSleep(trace) <= 7
    /\ pc \in {"llm", "sleep"} =>
        /\ attempt < 3
        /\ attempt = Sleeps(trace)
        /\ ENABLED (llm_predict \/ time_sleep)
    /\ FallbackReturned /\ First429(Len(calls)) =>
        /\ Len(calls) = 3
        /\ Predicts(trace) = 3
        /\ llm_answer = "I am currently experiencing issues. Please try again later."
        /\ response.status = 200

C7_Witness ==
    /\ FallbackReturned /\ Len(calls) = 3 /\ First429(3)
    /\ TotalSleep(trace) = 7
    /\ response.body.answer = "I am currently experiencing issues. Please try again later."

\* C8: an llm.predict failure whose text has no "429" ends call_llm_with_retry
\* at once with the apology string, on whichever attempt it happens: no sleep
\* and no call follows it, and every earlier call failed with "429".
C8_NoRetryOnOtherErrors ==
    /\ \A i \in 1..(Len(calls) - 1) : ~calls[i].ok /\ Contains("429", calls[i].text)
    /\ \A i \in 1..Len(calls) :
           ~calls[i].ok /\ ~Contains("429", calls[i].text) =>
               /\ i = Len(calls)
               /\ pc = "done"
               /\ llm_answer = "Sorry, I encountered an error processing your request."
               /\ trace = SubSeq(ExpectedTrace(i), 1, 2 * i - 1)

C8_Witness ==
    /\ FallbackReturned /\ Len(calls) = 3 /\ First429(2)
    /\ calls[3] = [ok |-> FALSE, text |-> "Request timed out."]
    /\ llm_answer = "Sorry, I encountered an error processing your request."

C10_MemoryGrowth ==
    /\ pc = "idle" => mem0 = memory
    /\ gen = "ok" =>
           memory = Append(mem0, [question |-> query, answer |-> raw_answer])
    /\ gen # "ok" => memory = mem0

C10_Witness ==
    /\ Done /\ Len(mem0) = 1 /\ Len(memory) = 2
    /\ mem0[1].question = "GST?"
    /\ query = "rain"
    /\ response.body.answer =
           "[!] I can only answer finance or tax-related queries. Please try again with a relevant question."

====
